---- MODULE Spec2Model ----
(***************************************************************************)
(* The epoch/batch control loops of the training entry points of           *)
(* rmguney/ObjectClassification, with the Heartbeat latency guard and the  *)
(* best-checkpoint decision.                                               *)
(*                                                                         *)
(* Six entry points share one loop skeleton and differ in the features     *)
(* listed below (heartbeat placement, validation pass, scheduler,          *)
(* checkpoints, metric series).  Floats are modelled as exact ratios       *)
(* [num, den]; wall-clock time is an integer number of seconds that        *)
(* advances only while a training or validation step runs.                 *)
(***************************************************************************)
EXTENDS Integers, Sequences, FiniteSets, TLC

\* ------------------------------------------------------------------ bounds
MaxEpochs == 2
MaxTrain == 2
MaxVal == 2
\* calls of log_message in one process, and seconds its clock may advance
MaxCalls == 3
MaxTime == 1
\* images of a batch, and annotated objects of an image
MaxTargets == 2
MaxObjects == 2
\* length of a tuple returned by get_cifar10_dataloaders
MaxItems == 4

\* --------------------------------------------------------------- constants
\* Heartbeat(timeout=600, ...)
Timeout == 600

\* Seconds a single step may take: exactly the limit, or just over it.
Durations == {Timeout, Timeout + 1}
\* loss.item() of a training batch / of a validation batch
Losses == {1}
ValLosses == {1}
\* (predicted == labels).sum().item(): every batch holds one sample
Corrects == {0, 1}
\* torch.norm(param.grad).item() of one parameter
GradNorms == {1}
\* loss.item() values of the runs that look at the epoch means
MetricLosses == {1, 2, 3}

\* ---------------------------------------------------------- entry points
Tuned == {"train_mobilenet_tuned", "train_detr_tuned"}
Current == {"train_detr", "train_mobilenet"}
Trainers == Tuned \cup Current \cup {"train_mobilenet_class", "train_and_log"}

\* heartbeat.check(batch_start) appears in the batch loop
HasHeartbeat(t) == t # "train_and_log"
\* ... directly after batch_start = time.time(), before the training step
CheckBeforeStep(t) == t \in Current
\* faulty variant: every trainer ends its epochs with the validation pass
\* and the decision
HasValidation_all(t) == t \in Trainers

\* a validation pass, a best-checkpoint decision and scheduler.step() follow
HasValidation(t) == t \in Tuned \cup Current
HasScheduler(t) == t \in Tuned \cup Current
\* torch.save(..._epoch_{epoch+1}_tuned.pth) at the end of each epoch
HasEpochCheckpoint(t) == t \in Tuned
\* losses / accuracies lists are kept
KeepsTrainSeries(t) == t \notin Current
KeepsValSeries(t) == t \in Tuned
TracksGradients(t) == t \in Tuned
\* correct / total are accumulated per batch
TracksAccuracy(t) == t \notin Current
\* total_time / epochs after the loop
SummaryDivides(t) == t \in {"train_mobilenet_class", "train_and_log"}
\* torch.save(..._checkpoint.pth) after the loop
HasFinalCheckpoint(t) == t = "train_and_log"
\* for loss, acc in zip(losses, accuracies): one summary line per epoch
WritesSummary(t) == t \in {"train_mobilenet_class", "train_and_log"}
\* model_name, as handed to Heartbeat(timeout=600, model_name=model_name)
ModelName(t) ==
    CASE t = "train_mobilenet_tuned" -> "MobileNet_Tuned"
      [] t = "train_detr_tuned" -> "DETR_Tuned"
      [] t = "train_mobilenet_class" -> "MobileNet"
      [] t = "train_detr" -> "DETR_PascalVOC"
      [] t = "train_mobilenet" -> "MobileNet_PascalVOC"
      [] OTHER -> "Model"
\* The two Heartbeat classes of the repository.  src.utils.benchmark is what
\* the current trainers import; the module utils.benchmark of the legacy
\* trainers is not among the sources, so either class may stand behind it.
HeartbeatCopies(t) ==
    IF t \in Current THEN {"benchmark"} ELSE {"benchmark", "heartbeat"}

\* ------------------------------------------------------------ arithmetic
Ratio(n, d) == [num |-> n, den |-> d]
Zero == Ratio(0, 1)
\* a > b on floats (denominators are positive)
FloatGT(a, b) == a.num * b.den > b.num * a.den

RECURSIVE SeqSum(_)
SeqSum(s) == IF s = <<>> THEN 0 ELSE Head(s) + SeqSum(Tail(s))

VARIABLES
    trainer, epochs, numTrain, numVal,
    pc, epoch, batch_idx, val_idx,
    now, batch_start,
    running_loss, correct, total, layer_gradient_norms,
    val_loss, val_correct, val_total,
    training_losses, training_accuracies,
    validation_losses, validation_accuracies, gradient_norms,
    score, best_val,
    decisions, scores, saves, sched_steps,
    train_steps, val_steps, completed, epoch_log, error,
    error_msg, log_records, summary, exported,
    step_log, hb_checks, epoch_batches,
    log_files, files, current_time, log_calls,
    sanitizer, targets, sanitized_targets, sanitize_pc,
    choice, dataloaders, train_loader, val_loader, menu_pc, called

config == <<trainer, epochs, numTrain, numVal>>
clock == <<now, batch_start>>
trainAcc == <<running_loss, correct, total, layer_gradient_norms>>
valAcc == <<val_loss, val_correct, val_total>>
trainSeries == <<training_losses, training_accuracies, gradient_norms>>
valSeries == <<validation_losses, validation_accuracies>>
policy == <<score, best_val, decisions, scores>>
effects == <<saves, sched_steps>>
counters == <<train_steps, val_steps, completed, epoch_log>>
\* what leaves the function: exception text, log records, summary, series
report == <<error_msg, log_records, summary, exported>>
\* history: batches stepped, heartbeat checks made, batches of this epoch
history == <<step_log, hb_checks, epoch_batches>>

\* the state of one training run
run == <<config, pc, epoch, batch_idx, val_idx, clock, trainAcc, valAcc,
         trainSeries, valSeries, policy, effects, counters, error,
         report, history>>
\* the logger module: registry, log files on disk, clock, calls made so far
registry == <<log_files, files, current_time, log_calls>>
\* state of the utility modules, which no step of a training run touches
\* one call of sanitize_bounding_boxes: copy called, argument, result, outcome
sanitizing == <<sanitizer, targets, sanitized_targets, sanitize_pc>>
\* one pass through main() of the legacy menu
menu == <<choice, dataloaders, train_loader, val_loader, menu_pc, called>>
library == <<registry, sanitizing, menu>>

vars == <<run, library>>

\* ------------------------------------------------------------- heartbeat
\* faulty variant: the limit itself already counts as exceeded
Heartbeat_check_inclusive(batch_time) == batch_time >= Timeout

\* Heartbeat.check: TRUE when TimeoutError is raised
Heartbeat_check(batch_time) == batch_time > Timeout

\* faulty variant: the text reports the limit, not the time that elapsed
TimeoutMessage_limit(batch_time, model_name) ==
    [batch_time |-> Timeout, model_name |-> model_name]

\* f"Batch processing exceeded timeout! ({batch_time:.2f} seconds)
\* {self.model_name} training aborted.": the fields the text is built from
TimeoutMessage(batch_time, model_name) ==
    [batch_time |-> batch_time, model_name |-> model_name]

\* an exception whose text is not looked at
NoMessage == [batch_time |-> 0, model_name |-> ""]

\* faulty variant: the record is written without the text of the exception
Heartbeat_log_bare(copy, msg) ==
    IF copy = "benchmark"
    THEN <<[writer |-> "Heartbeat.check", message |-> NoMessage]>>
    ELSE <<>>

\* logger.error(...) before the raise: only in the class of benchmark.py
Heartbeat_log(copy, msg) ==
    IF copy = "benchmark"
    THEN <<[writer |-> "Heartbeat.check", message |-> msg]>>
    ELSE <<>>

\* except TimeoutError as e: log_message(str(e), ...); raise
ExceptTimeoutError(t, msg) ==
    IF t = "train_mobilenet_class"
    THEN <<[writer |-> "train_mobilenet", message |-> msg]>>
    ELSE <<>>

\* ------------------------------------------------------ checkpoint policy
\* faulty variant: the comparison is turned around: lower is better
IsImprovement_minimize(candidate, best) == FloatGT(best, candidate)

\* if epoch_val_accuracy > best_val_accuracy
IsImprovement(candidate, best) == FloatGT(candidate, best)

\* calculate_mean_average_precision: a placeholder that returns 0.0
calculate_mean_average_precision == Zero

\* faulty variant: the run is parked after a failure and waits to be resumed
Raise_paused(e) == /\ error' = e
                   /\ pc' = "paused"

\* faulty variant: a handler records the exception and runs the step again
Raise_retry(e) == /\ error' = e
                  /\ pc' = "step"

\* faulty variant: a handler records the exception and the loop carries on
Raise_swallowed(e) == /\ error' = e
                      /\ pc' = "batch_log"

\* the exception leaves the training function
Raise(e) == /\ error' = e
            /\ pc' = "aborted"

\* ---------------------------------------------------------------- export
\* zip(losses, accuracies): pairs up to the shorter list
Zip(a, b) ==
    [i \in 1..(IF Len(a) < Len(b) THEN Len(a) ELSE Len(b)) |-> <<a[i], b[i]>>]

\* nothing has been handed to the caller or the plot
NoExport ==
    [delivered |-> FALSE, losses |-> <<>>, accuracies |-> <<>>,
     val_losses |-> <<>>, val_accuracies |-> <<>>, gradient_norms |-> <<>>]

\* the series as plot_training_results / the return statement receive them
Export ==
    [delivered |-> TRUE, losses |-> training_losses,
     accuracies |-> training_accuracies, val_losses |-> validation_losses,
     val_accuracies |-> validation_accuracies,
     gradient_norms |-> gradient_norms]

\* ---------------------------------------------------------------- logger
\* the empty dict
EmptyDict == [k \in {} |-> k]

\* model names, (epochs, learning_rate) arguments -- <<>> when left at None,
\* the learning rate in millionths -- and message texts of the calls
LogNames == {"MobileNet_Tuned", "DETR_Tuned"}
LogArgs == {<<>>, <<5, 1000>>, <<2, 1004>>}
LogTexts == {"a", "b"}

\* f"{learning_rate:.5f}": the rate rounded to five decimals, in units of 1e-5
FormatRate(lr) == (lr + 5) \div 10

\* the two file name patterns of initialize_log_file
LogFileName(model_name, args, t) ==
    [model |-> model_name,
     args |-> IF args = <<>> THEN <<>> ELSE <<args[1], FormatRate(args[2])>>,
     at |-> t]

\* "--- Logging started for {model_name} at {current_time} ---"
StartedLine(model_name, t) == [kind |-> "started", text |-> model_name, at |-> t]
\* message + "\n"
MessageLine(message) == [kind |-> "message", text |-> message, at |-> 0]

\* open(log_file, "a") ... f.write(line): the file is created when missing
AppendLine(disk, file, line) ==
    IF file \in DOMAIN disk
    THEN [disk EXCEPT ![file] = Append(@, line)]
    ELSE disk @@ (file :> <<line>>)

\* faulty variant: a call with other arguments starts a log file of its own
NeedsLogFile_perRun(model_name, args) ==
    \/ model_name \notin DOMAIN log_files
    \/ log_files[model_name].args # LogFileName(model_name, args, 0).args

\* if model_name not in log_files
NeedsLogFile(model_name, args) == model_name \notin DOMAIN log_files

\* log_message(message, model_name, epochs, learning_rate)
log_message(message, model_name, args) ==
    /\ Len(log_calls) < MaxCalls
    /\ LET init == NeedsLogFile(model_name, args)
           file == IF init
                   THEN LogFileName(model_name, args, current_time)
                   ELSE log_files[model_name]
           started == IF init
                      THEN AppendLine(files, file,
                                      StartedLine(model_name, current_time))
                      ELSE files
       IN  /\ log_files' = IF init
                           THEN [m \in DOMAIN log_files \cup {model_name} |->
                                    IF m = model_name THEN file ELSE log_files[m]]
                           ELSE log_files
           /\ files' = AppendLine(started, file, MessageLine(message))
    /\ log_calls' = Append(log_calls, [model |-> model_name, args |-> args,
                                       at |-> current_time, text |-> message])
    /\ UNCHANGED <<run, sanitizing, menu, current_time>>

\* a second passes on the clock behind datetime.now()
Tick ==
    /\ current_time < MaxTime
    /\ current_time' = current_time + 1
    /\ UNCHANGED <<run, sanitizing, menu, log_files, files, log_calls>>

\* ------------------------------------------------ sanitize_bounding_boxes
\* the first entries of VOC_CLASSES
VOC_CLASSES == <<"aeroplane", "bicycle", "bird", "boat", "bottle">>

\* VOC_CLASSES.index(name), counted from 0
ClassIndex(name) == (CHOOSE i \in DOMAIN VOC_CLASSES : VOC_CLASSES[i] = name) - 1

\* float(text) of the coordinate texts that occur
Float(text) ==
    CASE text = "0" -> 0
      [] text = "1" -> 1
      [] text = "1.0" -> 1
      [] text = "2" -> 2

\* obj["bndbox"] and obj["name"] of the annotated objects that occur: a unit
\* box, a wider box, a box of no width and a box turned upside down; the
\* names are names of the dataset, which VOC_CLASSES lists
Object(xmin, ymin, xmax, ymax, name) ==
    [xmin |-> xmin, ymin |-> ymin, xmax |-> xmax, ymax |-> ymax, name |-> name]
Objects ==
    {Object("0", "0", "1", "1", "bird"),
     Object("0", "0", "2", "1.0", "boat"),
     Object("1", "0", "1.0", "1", "bird"),
     Object("0", "1", "1", "0", "boat")}

\* all sequences over S of length at most n
SeqsUpTo(S, n) == UNION {[1..k -> S] : k \in 0..n}

\* faulty variant: a box of no width or no height passes as well
IsValidBox_nonStrict(obj) ==
    /\ Float(obj.xmax) >= Float(obj.xmin)
    /\ Float(obj.ymax) >= Float(obj.ymin)

\* if xmax > xmin and ymax > ymin
IsValidBox(obj) ==
    /\ Float(obj.xmax) > Float(obj.xmin)
    /\ Float(obj.ymax) > Float(obj.ymin)

\* the inner loop: the objects whose box is appended, in input order
RECURSIVE ValidObjects(_)
ValidObjects(objs) ==
    IF objs = <<>> THEN <<>>
    ELSE (IF IsValidBox(Head(objs)) THEN <<Head(objs)>> ELSE <<>>)
             \o ValidObjects(Tail(objs))

\* [xmin, ymin, xmax, ymax]
Bbox(obj) ==
    <<Float(obj.xmin), Float(obj.ymin), Float(obj.xmax), Float(obj.ymax)>>

\* the entry appended for an image with the valid objects v: boxes and labels
\* in train_mobilenet.py, image_id and annotations in train_detr.py
SanitizedTarget(copy, image_id, v) ==
    IF copy = "train_mobilenet"
    THEN [image_id |-> 0,
          boxes |-> [i \in DOMAIN v |-> Bbox(v[i])],
          labels |-> [i \in DOMAIN v |-> ClassIndex(v[i].name)],
          areas |-> <<>>]
    ELSE [image_id |-> image_id,
          boxes |-> [i \in DOMAIN v |-> Bbox(v[i])],
          labels |-> [i \in DOMAIN v |-> ClassIndex(v[i].name)],
          areas |-> [i \in DOMAIN v |->
                        (Float(v[i].xmax) - Float(v[i].xmin))
                            * (Float(v[i].ymax) - Float(v[i].ymin))]]

\* the outer loop, from the image with index image_id on
RECURSIVE sanitize_bounding_boxes(_, _, _)
sanitize_bounding_boxes(copy, ts, image_id) ==
    IF ts = <<>> THEN <<>>
    ELSE LET v == ValidObjects(Head(ts))
         IN  (IF v # <<>> THEN <<SanitizedTarget(copy, image_id, v)>> ELSE <<>>)
                 \o sanitize_bounding_boxes(copy, Tail(ts), image_id + 1)

\* target_batch = sanitize_bounding_boxes(targets)
Sanitize ==
    /\ sanitize_pc = "call"
    /\ sanitize_pc' = "returned"
    /\ sanitized_targets' = sanitize_bounding_boxes(sanitizer, targets, 0)
    /\ UNCHANGED <<run, registry, menu, sanitizer, targets>>

\* no call of sanitize_bounding_boxes under way
SanitizeStart ==
    /\ sanitizer = "train_mobilenet"
    /\ targets = <<>> /\ sanitized_targets = <<>>
    /\ sanitize_pc = "call"

\* ------------------------------------------------------- legacy menu
\* the loader objects a value may hold, and Python's None
Loaders == {"loaderA", "loaderB"}
None == "None"

\* what the menu offers, and an entry it does not offer
Choices == {"1", "2", "3", "4"}

\* the values get_cifar10_dataloaders may hand back: tuples of every length
\* up to MaxItems, dicts with any of the keys "train", "val" and "test", a
\* list of two loaders, and None
Value(type, items, entries) ==
    [type |-> type, items |-> items, entries |-> entries]
DictValues ==
    {Value("dict", <<>>, [k \in keys |-> "loaderA"]) :
        keys \in SUBSET {"train", "val", "test"}}
DataloaderValues ==
    {Value("tuple", items, EmptyDict) : items \in SeqsUpTo(Loaders, MaxItems)}
        \cup DictValues
        \cup {Value("list", <<"loaderA", "loaderB">>, EmptyDict),
              Value("NoneType", <<>>, EmptyDict)}

\* dataloaders.get(key)
Get(d, key) == IF key \in DOMAIN d THEN d[key] ELSE None

\* the branches that do not raise: a tuple of length 2 or 3, or a dict
Accepted(value) ==
    \/ value.type = "tuple" /\ Len(value.items) \in {2, 3}
    \/ value.type = "dict"

\* the training function imported for the choice
TrainingFunction(c) == IF c = "2" THEN "train_mobilenet" ELSE "train_detr"

\* choice "1": test_cifar10_dataset()
TestDataset ==
    /\ menu_pc = "menu" /\ choice = "1"
    /\ menu_pc' = "tested"
    /\ UNCHANGED <<run, registry, sanitizing, choice, dataloaders,
                   train_loader, val_loader, called>>

\* any other input: "Invalid choice. Please select a valid option."
InvalidChoice ==
    /\ menu_pc = "menu" /\ choice \notin {"1", "2", "3"}
    /\ menu_pc' = "invalid"
    /\ UNCHANGED <<run, registry, sanitizing, choice, dataloaders,
                   train_loader, val_loader, called>>

\* choice "2" or "3": dataloaders = get_cifar10_dataloaders(batch_size=16),
\* then epochs and learning rate are read
GetDataloaders ==
    /\ menu_pc = "menu" /\ choice \in {"2", "3"}
    /\ menu_pc' = "unpack"
    /\ UNCHANGED <<run, registry, sanitizing, choice, dataloaders,
                   train_loader, val_loader, called>>

\* train_loader, val_loader = dataloaders, or with test_loader as third
UnpackTuple ==
    /\ menu_pc = "unpack"
    /\ dataloaders.type = "tuple" /\ Accepted(dataloaders)
    /\ train_loader' = dataloaders.items[1]
    /\ val_loader' = dataloaders.items[2]
    /\ menu_pc' = "call"
    /\ UNCHANGED <<run, registry, sanitizing, choice, dataloaders, called>>

\* train_loader = dataloaders.get("train"); val_loader = dataloaders.get("val")
UnpackDict ==
    /\ menu_pc = "unpack"
    /\ dataloaders.type = "dict" /\ Accepted(dataloaders)
    /\ train_loader' = Get(dataloaders.entries, "train")
    /\ val_loader' = Get(dataloaders.entries, "val")
    /\ menu_pc' = "call"
    /\ UNCHANGED <<run, registry, sanitizing, choice, dataloaders, called>>

\* raise ValueError(...): a tuple of another length, or another type
RaiseValueError ==
    /\ menu_pc = "unpack"
    /\ ~Accepted(dataloaders)
    /\ menu_pc' = "ValueError"
    /\ UNCHANGED <<run, registry, sanitizing, choice, dataloaders,
                   train_loader, val_loader, called>>

\* train_mobilenet(train_loader, val_loader, ...) or train_detr(...)
CallTraining ==
    /\ menu_pc = "call"
    /\ called' = <<TrainingFunction(choice), train_loader, val_loader>>
    /\ menu_pc' = "training"
    /\ UNCHANGED <<run, registry, sanitizing, choice, dataloaders,
                   train_loader, val_loader>>

\* main() not entered
MenuStart ==
    /\ choice = "1"
    /\ dataloaders = Value("NoneType", <<>>, EmptyDict)
    /\ train_loader = None /\ val_loader = None
    /\ menu_pc = "menu"
    /\ called = <<>>

\* ------------------------------------------------------------------ Init
\* the logger module after import
LoggerStart ==
    /\ log_files = EmptyDict /\ files = EmptyDict
    /\ current_time = 0 /\ log_calls = <<>>

\* the locals of a trainer before its first statement
Start ==
    /\ pc = "idle"
    /\ epoch = 0 /\ batch_idx = 0 /\ val_idx = 0
    /\ now = 0 /\ batch_start = 0
    /\ running_loss = 0 /\ correct = 0 /\ total = 0
    /\ layer_gradient_norms = <<>>
    /\ val_loss = 0 /\ val_correct = 0 /\ val_total = 0
    /\ training_losses = <<>> /\ training_accuracies = <<>>
    /\ validation_losses = <<>> /\ validation_accuracies = <<>>
    /\ gradient_norms = <<>>
    /\ score = Zero
    /\ best_val = Zero
    /\ decisions = <<>> /\ scores = <<>> /\ saves = <<>>
    /\ sched_steps = 0 /\ train_steps = 0 /\ val_steps = 0 /\ completed = 0
    /\ epoch_log = <<>>
    /\ error = "none"
    /\ error_msg = NoMessage /\ log_records = <<>>
    /\ summary = <<>> /\ exported = NoExport
    /\ step_log = <<>> /\ hb_checks = 0 /\ epoch_batches = <<>>

Init ==
    /\ trainer \in Trainers
    /\ epochs \in 0..MaxEpochs
    /\ numTrain \in 0..MaxTrain
    /\ numVal \in IF HasValidation(trainer) THEN 0..MaxVal ELSE {0}
    /\ Start
    /\ LoggerStart
    /\ SanitizeStart
    /\ MenuStart

\* --------------------------------------------------------------- actions
\* set-up up to the first evaluation of `for epoch in range(epochs)`
StartRun ==
    /\ pc = "idle"
    /\ pc' = "epoch_head"
    /\ UNCHANGED <<library, config, epoch, batch_idx, val_idx, clock, trainAcc, valAcc,
                   trainSeries, valSeries, policy, effects, counters, error,
                   report, history>>

\* faulty variant: the accumulators are set up once, before the epoch loop
BeginEpoch_noReset ==
    /\ pc = "epoch_head"
    /\ epoch < epochs
    /\ layer_gradient_norms' = <<>>
    /\ batch_idx' = 0
    /\ epoch_log' = Append(epoch_log, epoch)
    /\ pc' = "batch_head"
    /\ UNCHANGED <<library, config, epoch, val_idx, clock, valAcc,
                   running_loss, correct, total,
                   trainSeries, valSeries, policy, effects,
                   train_steps, val_steps, completed, error,
                   report, history>>

\* loop entry: the per-epoch accumulators are reset
BeginEpoch ==
    /\ pc = "epoch_head"
    /\ epoch < epochs
    /\ running_loss' = 0 /\ correct' = 0 /\ total' = 0
    /\ layer_gradient_norms' = <<>>
    /\ batch_idx' = 0
    /\ epoch_log' = Append(epoch_log, epoch)
    /\ pc' = "batch_head"
    /\ UNCHANGED <<library, config, epoch, val_idx, clock, valAcc,
                   trainSeries, valSeries, policy, effects,
                   train_steps, val_steps, completed, error,
                   report, history>>

\* range(epochs) is exhausted
ExitEpochLoop ==
    /\ pc = "epoch_head"
    /\ epoch >= epochs
    /\ pc' = "finish"
    /\ UNCHANGED <<library, config, epoch, batch_idx, val_idx, clock, trainAcc, valAcc,
                   trainSeries, valSeries, policy, effects, counters, error,
                   report, history>>

\* next batch of train_loader: batch_start = time.time()
RecordBatchStart ==
    /\ pc = "batch_head"
    /\ batch_idx < numTrain
    /\ batch_start' = IF HasHeartbeat(trainer) THEN now ELSE batch_start
    /\ pc' = IF HasHeartbeat(trainer) /\ CheckBeforeStep(trainer)
             THEN "check" ELSE "step"
    /\ UNCHANGED <<library, config, epoch, batch_idx, val_idx, now, trainAcc, valAcc,
                   trainSeries, valSeries, policy, effects, counters, error,
                   report, history>>

\* forward, loss, backward, optimizer.step(), accumulator updates
TrainStep(l, c, g, d) ==
    /\ pc = "step"
    /\ now' = now + d
    /\ running_loss' = running_loss + l
    /\ IF TracksAccuracy(trainer)
       THEN /\ total' = total + 1
            /\ correct' = correct + c
       ELSE UNCHANGED <<correct, total>>
    /\ layer_gradient_norms' =
         IF TracksGradients(trainer)
         THEN Append(layer_gradient_norms, g) ELSE layer_gradient_norms
    /\ train_steps' = train_steps + 1
    /\ step_log' = Append(step_log, [stream |-> "train", epoch |-> epoch,
                                     idx |-> batch_idx])
    /\ epoch_batches' =
         Append(epoch_batches,
                [loss |-> l,
                 correct |-> IF TracksAccuracy(trainer) THEN c ELSE 0])
    /\ pc' = IF HasHeartbeat(trainer) /\ ~CheckBeforeStep(trainer)
             THEN "check" ELSE "batch_log"
    /\ UNCHANGED <<library, config, epoch, batch_idx, val_idx, batch_start, valAcc,
                   trainSeries, valSeries, policy, effects,
                   val_steps, completed, epoch_log, error,
                   report, hb_checks>>

\* the model or the loss raises inside the training step
TrainStepFails ==
    /\ pc = "step"
    /\ Raise("StepFailure")
    /\ UNCHANGED <<library, config, epoch, batch_idx, val_idx, clock, trainAcc, valAcc,
                   trainSeries, valSeries, policy, effects, counters,
                   report, history>>

\* heartbeat.check(batch_start); a TimeoutError is not handled (the class
\* trainer logs it and re-raises)
HeartbeatCheck ==
    /\ pc = "check"
    /\ hb_checks' = hb_checks + 1
    /\ IF Heartbeat_check(now - batch_start)
       THEN /\ error_msg' = TimeoutMessage(now - batch_start,
                                           ModelName(trainer))
            /\ \E copy \in HeartbeatCopies(trainer) :
                  log_records' = log_records \o Heartbeat_log(copy, error_msg')
                                     \o ExceptTimeoutError(trainer, error_msg')
            /\ Raise("TimeoutError")
       ELSE /\ pc' = IF CheckBeforeStep(trainer) THEN "step" ELSE "batch_log"
            /\ UNCHANGED <<error, error_msg, log_records>>
    /\ UNCHANGED <<library, config, epoch, batch_idx, val_idx, clock, trainAcc, valAcc,
                   trainSeries, valSeries, policy, effects, counters,
                   summary, exported, step_log, epoch_batches>>

\* faulty variant: the loader hands out every other batch only
NextBatch_skip ==
    /\ pc = "batch_log"
    /\ batch_idx' = batch_idx + 2
    /\ pc' = "batch_head"
    /\ UNCHANGED <<library, config, epoch, val_idx, clock, trainAcc, valAcc,
                   trainSeries, valSeries, policy, effects, counters, error,
                   report, history>>

\* the per-batch log line that ends the loop body
NextBatch ==
    /\ pc = "batch_log"
    /\ batch_idx' = batch_idx + 1
    /\ pc' = "batch_head"
    /\ UNCHANGED <<library, config, epoch, val_idx, clock, trainAcc, valAcc,
                   trainSeries, valSeries, policy, effects, counters, error,
                   report, history>>

\* train_loader is exhausted
EndTrainLoop ==
    /\ pc = "batch_head"
    /\ batch_idx >= numTrain
    /\ pc' = "train_finalize"
    /\ UNCHANGED <<library, config, epoch, batch_idx, val_idx, clock, trainAcc, valAcc,
                   trainSeries, valSeries, policy, effects, counters, error,
                   report, history>>

\* faulty variant: every division is guarded against a zero divisor
TrainDivisionByZero_guarded == FALSE

\* a division of the epoch's training metrics has a zero divisor
TrainDivisionByZero ==
    \/ TracksGradients(trainer) /\ Len(layer_gradient_norms) = 0
    \/ numTrain = 0
    \/ TracksAccuracy(trainer) /\ total = 0

\* faulty variant: the gradient norm of the epoch is computed, not appended
FinalizeTraining_noGradient ==
    /\ pc = "train_finalize"
    /\ IF TrainDivisionByZero
       THEN /\ Raise("ZeroDivisionError")
            /\ UNCHANGED <<trainSeries, valAcc, val_idx, epoch_batches>>
       ELSE /\ training_losses' =
                 IF KeepsTrainSeries(trainer)
                 THEN Append(training_losses, Ratio(running_loss, numTrain))
                 ELSE training_losses
            /\ training_accuracies' =
                 IF KeepsTrainSeries(trainer)
                 THEN Append(training_accuracies, Ratio(100 * correct, total))
                 ELSE training_accuracies
            /\ val_loss' = 0 /\ val_correct' = 0 /\ val_total' = 0
            /\ val_idx' = 0
            /\ epoch_batches' = <<>>
            /\ pc' = IF HasValidation(trainer) THEN "val" ELSE "epoch_end"
            /\ UNCHANGED <<error, gradient_norms>>
    /\ UNCHANGED <<library, config, epoch, batch_idx, clock, trainAcc,
                   valSeries, policy, effects, counters,
                   report, step_log, hb_checks>>

\* epoch metrics of the training pass; validation accumulators are reset
FinalizeTraining ==
    /\ pc = "train_finalize"
    /\ IF TrainDivisionByZero
       THEN /\ Raise("ZeroDivisionError")
            /\ UNCHANGED <<trainSeries, valAcc, val_idx, epoch_batches>>
       ELSE /\ gradient_norms' =
                 IF TracksGradients(trainer)
                 THEN Append(gradient_norms,
                             Ratio(SeqSum(layer_gradient_norms),
                                   Len(layer_gradient_norms)))
                 ELSE gradient_norms
            /\ training_losses' =
                 IF KeepsTrainSeries(trainer)
                 THEN Append(training_losses, Ratio(running_loss, numTrain))
                 ELSE training_losses
            /\ training_accuracies' =
                 IF KeepsTrainSeries(trainer)
                 THEN Append(training_accuracies, Ratio(100 * correct, total))
                 ELSE training_accuracies
            /\ val_loss' = 0 /\ val_correct' = 0 /\ val_total' = 0
            /\ val_idx' = 0
            /\ epoch_batches' = <<>>
            /\ pc' = IF HasValidation(trainer) THEN "val" ELSE "epoch_end"
            /\ UNCHANGED error
    /\ UNCHANGED <<library, config, epoch, batch_idx, clock, trainAcc,
                   valSeries, policy, effects, counters,
                   report, step_log, hb_checks>>

\* faulty variant: the validation loop checks the heartbeat after each batch
ValStep_checked(l, c, d) ==
    /\ pc = "val"
    /\ val_idx < numVal
    /\ now' = now + d
    /\ val_loss' = val_loss + l
    /\ IF KeepsValSeries(trainer)
       THEN /\ val_total' = val_total + 1
            /\ val_correct' = val_correct + c
       ELSE UNCHANGED <<val_correct, val_total>>
    /\ val_idx' = val_idx + 1
    /\ val_steps' = val_steps + 1
    /\ step_log' = Append(step_log, [stream |-> "val", epoch |-> epoch,
                                     idx |-> val_idx])
    /\ hb_checks' = hb_checks + 1
    /\ IF Heartbeat_check(d)
       THEN Raise("TimeoutError")
       ELSE UNCHANGED <<pc, error>>
    /\ UNCHANGED <<library, config, epoch, batch_idx, batch_start, trainAcc,
                   trainSeries, valSeries, policy, effects,
                   train_steps, completed, epoch_log,
                   report, epoch_batches>>

\* one batch of val_loader under torch.no_grad(): no heartbeat check
ValStep(l, c, d) ==
    /\ pc = "val"
    /\ val_idx < numVal
    /\ now' = now + d
    /\ val_loss' = val_loss + l
    /\ IF KeepsValSeries(trainer)
       THEN /\ val_total' = val_total + 1
            /\ val_correct' = val_correct + c
       ELSE UNCHANGED <<val_correct, val_total>>
    /\ val_idx' = val_idx + 1
    /\ val_steps' = val_steps + 1
    /\ step_log' = Append(step_log, [stream |-> "val", epoch |-> epoch,
                                     idx |-> val_idx])
    /\ UNCHANGED <<library, config, pc, epoch, batch_idx, batch_start, trainAcc,
                   trainSeries, valSeries, policy, effects,
                   train_steps, completed, epoch_log, error,
                   report, hb_checks, epoch_batches>>

\* the model or the loss raises inside a validation batch
ValStepFails ==
    /\ pc = "val"
    /\ val_idx < numVal
    /\ Raise("StepFailure")
    /\ UNCHANGED <<library, config, epoch, batch_idx, val_idx, clock, trainAcc, valAcc,
                   trainSeries, valSeries, policy, effects, counters,
                   report, history>>

\* faulty variant: the validation loss of the epoch is computed, not appended
FinalizeValidation_skipsLoss ==
    /\ pc = "val"
    /\ val_idx >= numVal
    /\ IF numVal = 0 \/ (KeepsValSeries(trainer) /\ val_total = 0)
       THEN /\ Raise("ZeroDivisionError")
            /\ UNCHANGED <<valSeries, score>>
       ELSE /\ validation_accuracies' =
                 IF KeepsValSeries(trainer)
                 THEN Append(validation_accuracies,
                             Ratio(100 * val_correct, val_total))
                 ELSE validation_accuracies
            /\ score' = IF KeepsValSeries(trainer)
                        THEN Ratio(100 * val_correct, val_total)
                        ELSE calculate_mean_average_precision
            /\ pc' = "ckpt"
            /\ UNCHANGED <<error, validation_losses>>
    /\ UNCHANGED <<library, config, epoch, batch_idx, val_idx, clock, trainAcc, valAcc,
                   trainSeries, best_val, decisions, scores, effects,
                   counters, report, history>>

\* epoch metrics of the validation pass; the score the decision will use
FinalizeValidation ==
    /\ pc = "val"
    /\ val_idx >= numVal
    /\ IF numVal = 0 \/ (KeepsValSeries(trainer) /\ val_total = 0)
       THEN /\ Raise("ZeroDivisionError")
            /\ UNCHANGED <<valSeries, score>>
       ELSE /\ validation_losses' =
                 IF KeepsValSeries(trainer)
                 THEN Append(validation_losses, Ratio(val_loss, numVal))
                 ELSE validation_losses
            /\ validation_accuracies' =
                 IF KeepsValSeries(trainer)
                 THEN Append(validation_accuracies,
                             Ratio(100 * val_correct, val_total))
                 ELSE validation_accuracies
            /\ score' = IF KeepsValSeries(trainer)
                        THEN Ratio(100 * val_correct, val_total)
                        ELSE calculate_mean_average_precision
            /\ pc' = "ckpt"
            /\ UNCHANGED error
    /\ UNCHANGED <<library, config, epoch, batch_idx, val_idx, clock, trainAcc, valAcc,
                   trainSeries, best_val, decisions, scores, effects,
                   counters,
                   report, history>>

\* faulty variant: the best score is overwritten with the score of the epoch
CheckpointDecision_overwrite ==
    /\ pc = "ckpt"
    /\ decisions' = Append(decisions, IsImprovement(score, best_val))
    /\ scores' = Append(scores, score)
    /\ best_val' = score
    /\ pc' = IF IsImprovement(score, best_val) THEN "save_best" ELSE "sched"
    /\ UNCHANGED <<library, config, epoch, batch_idx, val_idx, clock, trainAcc, valAcc,
                   trainSeries, valSeries, score, effects, counters, error,
                   report, history>>

\* faulty variant: the best checkpoint is written whatever the comparison says
CheckpointDecision_alwaysSave ==
    /\ pc = "ckpt"
    /\ decisions' = Append(decisions, IsImprovement(score, best_val))
    /\ scores' = Append(scores, score)
    /\ best_val' = IF IsImprovement(score, best_val) THEN score ELSE best_val
    /\ pc' = "save_best"
    /\ UNCHANGED <<library, config, epoch, batch_idx, val_idx, clock, trainAcc, valAcc,
                   trainSeries, valSeries, score, effects, counters, error,
                   report, history>>

\* if score > best: best = score (the save follows)
CheckpointDecision ==
    /\ pc = "ckpt"
    /\ decisions' = Append(decisions, IsImprovement(score, best_val))
    /\ scores' = Append(scores, score)
    /\ best_val' = IF IsImprovement(score, best_val) THEN score ELSE best_val
    /\ pc' = IF IsImprovement(score, best_val) THEN "save_best" ELSE "sched"
    /\ UNCHANGED <<library, config, epoch, batch_idx, val_idx, clock, trainAcc, valAcc,
                   trainSeries, valSeries, score, effects, counters, error,
                   report, history>>

\* torch.save(state_dict, ..._best*.pth)
SaveBest ==
    /\ pc = "save_best"
    /\ saves' = Append(saves, [kind |-> "best", epoch |-> epoch])
    /\ pc' = "sched"
    /\ UNCHANGED <<library, config, epoch, batch_idx, val_idx, clock, trainAcc, valAcc,
                   trainSeries, valSeries, policy, sched_steps, counters, error,
                   report, history>>

\* faulty variant: the call to scheduler.step() is lost
SchedulerStep_skipped ==
    /\ pc = "sched"
    /\ pc' = IF HasEpochCheckpoint(trainer) THEN "epoch_ckpt" ELSE "epoch_end"
    /\ UNCHANGED <<library, config, epoch, batch_idx, val_idx, clock, trainAcc, valAcc,
                   trainSeries, valSeries, policy, effects, counters, error,
                   report, history>>

\* scheduler.step()
SchedulerStep ==
    /\ pc = "sched"
    /\ sched_steps' = sched_steps + 1
    /\ pc' = IF HasEpochCheckpoint(trainer) THEN "epoch_ckpt" ELSE "epoch_end"
    /\ UNCHANGED <<library, config, epoch, batch_idx, val_idx, clock, trainAcc, valAcc,
                   trainSeries, valSeries, policy, saves, counters, error,
                   report, history>>

\* faulty variant: the per-epoch checkpoint is written every second epoch
SaveEpochCheckpoint_everyOther ==
    /\ pc = "epoch_ckpt"
    /\ saves' = IF epoch % 2 = 1
                THEN Append(saves, [kind |-> "epoch", epoch |-> epoch])
                ELSE saves
    /\ pc' = "epoch_end"
    /\ UNCHANGED <<library, config, epoch, batch_idx, val_idx, clock, trainAcc, valAcc,
                   trainSeries, valSeries, policy, sched_steps, counters, error,
                   report, history>>

\* torch.save(state_dict, ..._epoch_{epoch+1}_tuned.pth)
SaveEpochCheckpoint ==
    /\ pc = "epoch_ckpt"
    /\ saves' = Append(saves, [kind |-> "epoch", epoch |-> epoch])
    /\ pc' = "epoch_end"
    /\ UNCHANGED <<library, config, epoch, batch_idx, val_idx, clock, trainAcc, valAcc,
                   trainSeries, valSeries, policy, sched_steps, counters, error,
                   report, history>>

\* faulty variant: the loop index advances by two: every other epoch is skipped
EndEpoch_skip ==
    /\ pc = "epoch_end"
    /\ epoch' = epoch + 2
    /\ completed' = completed + 1
    /\ pc' = "epoch_head"
    /\ UNCHANGED <<library, config, batch_idx, val_idx, clock, trainAcc, valAcc,
                   trainSeries, valSeries, policy, effects,
                   train_steps, val_steps, epoch_log, error,
                   report, history>>

\* end of the loop body: the for statement takes the next index
EndEpoch ==
    /\ pc = "epoch_end"
    /\ epoch' = epoch + 1
    /\ completed' = completed + 1
    /\ pc' = "epoch_head"
    /\ UNCHANGED <<library, config, batch_idx, val_idx, clock, trainAcc, valAcc,
                   trainSeries, valSeries, policy, effects,
                   train_steps, val_steps, epoch_log, error,
                   report, history>>

\* after the loop: timing summary, final checkpoint, the summary lines
\* written from zip(losses, accuracies)
FinishRun ==
    /\ pc = "finish"
    /\ IF SummaryDivides(trainer) /\ epochs = 0
       THEN /\ Raise("ZeroDivisionError")
            /\ UNCHANGED <<saves, summary>>
       ELSE /\ saves' = IF HasFinalCheckpoint(trainer)
                        THEN Append(saves, [kind |-> "final", epoch |-> epoch])
                        ELSE saves
            /\ summary' = IF WritesSummary(trainer)
                          THEN Zip(training_losses, training_accuracies)
                          ELSE summary
            /\ pc' = "export"
            /\ UNCHANGED error
    /\ UNCHANGED <<library, config, epoch, batch_idx, val_idx, clock, trainAcc, valAcc,
                   trainSeries, valSeries, policy, sched_steps, counters,
                   error_msg, log_records, exported, history>>

\* faulty variant: the series are handed over by popping them off the lists
ExportSeries_consuming ==
    /\ pc = "export"
    /\ exported' = Export
    /\ training_losses' = <<>>
    /\ training_accuracies' = <<>>
    /\ pc' = "done"
    /\ UNCHANGED <<library, config, epoch, batch_idx, val_idx, clock, trainAcc, valAcc,
                   gradient_norms, valSeries, policy, effects, counters,
                   error, error_msg, log_records, summary, history>>

\* the last statement: plot_training_results(...) or return of the series
ExportSeries ==
    /\ pc = "export"
    /\ exported' = Export
    /\ pc' = "done"
    /\ UNCHANGED <<library, config, epoch, batch_idx, val_idx, clock, trainAcc, valAcc,
                   trainSeries, valSeries, policy, effects, counters,
                   error, error_msg, log_records, summary, history>>

Next ==
    \/ StartRun
    \/ BeginEpoch
    \/ ExitEpochLoop
    \/ RecordBatchStart
    \/ \E l \in Losses, c \in Corrects, g \in GradNorms, d \in Durations :
          TrainStep(l, c, g, d)
    \/ TrainStepFails
    \/ HeartbeatCheck
    \/ NextBatch
    \/ EndTrainLoop
    \/ FinalizeTraining
    \/ \E l \in ValLosses, c \in Corrects, d \in Durations : ValStep(l, c, d)
    \/ ValStepFails
    \/ FinalizeValidation
    \/ CheckpointDecision
    \/ SaveBest
    \/ SchedulerStep
    \/ SaveEpochCheckpoint
    \/ EndEpoch
    \/ FinishRun
    \/ ExportSeries

Spec == Init /\ [][Next]_vars

\* Runs of full length whose batch losses differ from batch to batch, in the
\* two trainers that keep the mean loss of every epoch.
InitMetrics ==
    /\ trainer \in {"train_mobilenet_tuned", "train_and_log"}
    /\ epochs = MaxEpochs
    /\ numTrain = MaxTrain
    /\ numVal = IF HasValidation(trainer) THEN 1 ELSE 0
    /\ Start
    /\ LoggerStart
    /\ SanitizeStart
    /\ MenuStart

\* the same steps, with batch losses from MetricLosses and every step taking
\* exactly the time limit
NextMetrics ==
    \/ StartRun
    \/ BeginEpoch
    \/ ExitEpochLoop
    \/ RecordBatchStart
    \/ \E l \in MetricLosses, c \in Corrects, g \in GradNorms :
          TrainStep(l, c, g, Timeout)
    \/ TrainStepFails
    \/ HeartbeatCheck
    \/ NextBatch
    \/ EndTrainLoop
    \/ FinalizeTraining
    \/ \E l \in ValLosses, c \in Corrects : ValStep(l, c, Timeout)
    \/ ValStepFails
    \/ FinalizeValidation
    \/ CheckpointDecision
    \/ SaveBest
    \/ SchedulerStep
    \/ SaveEpochCheckpoint
    \/ EndEpoch
    \/ FinishRun
    \/ ExportSeries

SpecMetrics == InitMetrics /\ [][NextMetrics]_vars

\* The same steps with every prediction correct: which batches run and how
\* long they take is all that matters for the end of a run.
NextLive ==
    \/ StartRun
    \/ BeginEpoch
    \/ ExitEpochLoop
    \/ RecordBatchStart
    \/ \E l \in Losses, g \in GradNorms, d \in Durations : TrainStep(l, 1, g, d)
    \/ TrainStepFails
    \/ HeartbeatCheck
    \/ NextBatch
    \/ EndTrainLoop
    \/ FinalizeTraining
    \/ \E l \in ValLosses, d \in Durations : ValStep(l, 1, d)
    \/ ValStepFails
    \/ FinalizeValidation
    \/ CheckpointDecision
    \/ SaveBest
    \/ SchedulerStep
    \/ SaveEpochCheckpoint
    \/ EndEpoch
    \/ FinishRun
    \/ ExportSeries

\* The interpreter always executes the next statement of a running trainer;
\* every loader is finite and every step returns or raises.
SpecLive == Init /\ [][NextLive]_vars /\ WF_vars(NextLive)

\* A process that only logs: no training run is under way.
NoRun ==
    /\ trainer = "train_mobilenet_tuned"
    /\ epochs = 0 /\ numTrain = 0 /\ numVal = 0
    /\ Start

InitLogger == NoRun /\ LoggerStart /\ SanitizeStart /\ MenuStart

NextLogger ==
    \/ \E message \in LogTexts, model_name \in LogNames, args \in LogArgs :
          log_message(message, model_name, args)
    \/ Tick

SpecLogger == InitLogger /\ [][NextLogger]_vars

\* One call of either copy of sanitize_bounding_boxes on a batch of targets.
InitSanitize ==
    /\ NoRun /\ LoggerStart /\ MenuStart
    /\ sanitizer \in {"train_mobilenet", "train_detr"}
    /\ targets \in SeqsUpTo(SeqsUpTo(Objects, MaxObjects), MaxTargets)
    /\ sanitized_targets = <<>>
    /\ sanitize_pc = "call"

NextSanitize == Sanitize

SpecSanitize == InitSanitize /\ [][NextSanitize]_vars

\* One pass through the legacy menu, for every choice and every value that
\* get_cifar10_dataloaders may return.
InitMenu ==
    /\ NoRun /\ LoggerStart /\ SanitizeStart
    /\ choice \in Choices
    /\ dataloaders \in DataloaderValues
    /\ train_loader = None /\ val_loader = None
    /\ menu_pc = "menu"
    /\ called = <<>>

NextMenu ==
    \/ TestDataset
    \/ InvalidChoice
    \/ GetDataloaders
    \/ UnpackTuple
    \/ UnpackDict
    \/ RaiseValueError
    \/ CallTraining

SpecMenu == InitMenu /\ [][NextMenu]_vars

\* ================================================================ claims
\* helpers of the formulas below
SeriesLengths ==
    <<Len(training_losses), Len(training_accuracies), Len(validation_losses),
      Len(validation_accuracies), Len(gradient_norms)>>

\* the lengths every kept series has after n finalized epochs
LengthsAfter(n) ==
    <<IF KeepsTrainSeries(trainer) THEN n ELSE 0,
      IF KeepsTrainSeries(trainer) THEN n ELSE 0,
      IF KeepsValSeries(trainer) THEN n ELSE 0,
      IF KeepsValSeries(trainer) THEN n ELSE 0,
      IF TracksGradients(trainer) THEN n ELSE 0>>

BestSaves == {i \in DOMAIN saves : saves[i].kind = "best"}

\* the program point reached when heartbeat.check returned normally
CheckPassed ==
    /\ HasHeartbeat(trainer)
    /\ pc = IF CheckBeforeStep(trainer) THEN "step" ELSE "batch_log"

\* C1: Heartbeat.check raises TimeoutError if and only if the elapsed time
\* (now - batch_start) is strictly greater than the timeout; an elapsed time
\* equal to the timeout passes.
C1_TimeoutIffElapsedExceeds ==
    /\ error = "TimeoutError" => now - batch_start > Timeout
    /\ CheckPassed => now - batch_start <= Timeout

\* a check that passed with the elapsed time exactly at the limit
C1_Witness ==
    /\ CheckPassed
    /\ now - batch_start = Timeout

\* C2: when the heartbeat check fails on a training batch of epoch e the run
\* is aborted at once: the failing batch is the last batch processed, no
\* metric of epoch e is appended, no checkpoint of epoch e is written and
\* the schedule is not advanced for epoch e.
C2_AbortOnTimeout ==
    error = "TimeoutError" =>
        /\ pc = "aborted"
        /\ train_steps = epoch * numTrain + batch_idx + 1
        /\ val_steps = epoch * numVal
        /\ SeriesLengths = LengthsAfter(epoch)
        /\ \A i \in DOMAIN saves : saves[i].epoch < epoch
        /\ sched_steps = IF HasScheduler(trainer) THEN epoch ELSE 0
        /\ completed = epoch

\* a timeout on the first batch of the second epoch, with a batch still to come
C2_Witness ==
    /\ error = "TimeoutError"
    /\ trainer \in Tuned
    /\ epoch = 1 /\ batch_idx = 0 /\ numTrain = 2 /\ numVal >= 1

\* C3: in every entry point with a heartbeat, the check of a batch runs after
\* that batch's training step (the start time being taken before the step),
\* so no batch whose step took longer than the timeout is left unreported.
C3_CheckAfterStep ==
    HasHeartbeat(trainer) =>
        /\ pc = "check" => train_steps = epoch * numTrain + batch_idx + 1
        /\ pc = "batch_log" => now - batch_start <= Timeout

\* C4: maximizing, the decision of an epoch is true exactly when its score is
\* strictly greater than the score of every earlier epoch, and the best
\* checkpoint on disk is the one of the earliest epoch with the maximum score.
C4_StrictOverEarlierEpochs ==
    /\ \A i \in DOMAIN decisions :
          decisions[i] <=> \A j \in 1..(i - 1) : FloatGT(scores[i], scores[j])
    /\ (decisions # <<>> /\ pc # "save_best") =>
          /\ BestSaves # {}
          /\ \E i \in BestSaves :
                /\ \A k \in BestSaves : k <= i
                /\ \A j \in DOMAIN scores :
                      /\ ~FloatGT(scores[j], scores[saves[i].epoch + 1])
                      /\ j < saves[i].epoch + 1 =>
                            FloatGT(scores[saves[i].epoch + 1], scores[j])

\* C5: the first score of a run is an improvement whatever its value, so a
\* completed run of at least one epoch with a validation pass has written
\* the best checkpoint at least once.
C5_FirstScoreImproves ==
    /\ decisions # <<>> => decisions[1]
    /\ (pc = "done" /\ epochs >= 1 /\ HasValidation(trainer)) => BestSaves # {}

C7_CompletesWithNEpochs ==
    /\ pc = "aborted" =>
          \/ error \in {"TimeoutError", "StepFailure"}
          \/ numTrain = 0
          \/ HasValidation(trainer) /\ numVal = 0
    /\ pc = "done" => SeriesLengths = LengthsAfter(epochs)

\* C8: at every epoch boundary each kept series has one value per completed
\* epoch, and the epochs entered so far are 0, 1, 2, ... without gap or
\* repetition.
C8_EpochBoundary ==
    /\ \A i \in DOMAIN epoch_log : epoch_log[i] = i - 1
    /\ pc = "epoch_head" =>
          /\ SeriesLengths = LengthsAfter(completed)
          /\ Len(epoch_log) = completed
          /\ epoch = completed

\* the boundary after the second epoch of a trainer that keeps all series
C8_Witness ==
    /\ pc = "epoch_head"
    /\ completed = 2
    /\ trainer \in Tuned

\* C9 (as claimed): model state is written only in an epoch whose decision
\* reported an improvement, and never after the loop.
C9_SavesOnlyOnImprovement ==
    \A i \in DOMAIN saves :
        /\ saves[i].kind # "final"
        /\ saves[i].epoch + 1 <= Len(decisions)
        /\ decisions[saves[i].epoch + 1]

\* C9 (amended): the best checkpoint is written only in an epoch whose
\* decision reported an improvement, at most once per epoch; beside it the
\* tuned trainers write one per-epoch checkpoint in every epoch after the
\* scheduler step, and train_and_log writes one checkpoint after the loop.
C9_BestSaveOnlyOnImprovement ==
    \A i \in DOMAIN saves :
        /\ saves[i].kind = "best" =>
              /\ saves[i].epoch + 1 <= Len(decisions)
              /\ decisions[saves[i].epoch + 1]
              /\ \A k \in BestSaves : saves[k].epoch = saves[i].epoch => k = i
        /\ saves[i].kind = "epoch" =>
              /\ HasEpochCheckpoint(trainer)
              /\ sched_steps > saves[i].epoch
        /\ saves[i].kind = "final" =>
              /\ HasFinalCheckpoint(trainer)
              /\ pc \in {"export", "done"}
              /\ i = Len(saves)

\* a finished tuned run whose second epoch did not improve: the first epoch
\* wrote the best checkpoint, the second only its per-epoch checkpoint
C9_Witness ==
    /\ pc = "done"
    /\ decisions = <<TRUE, FALSE>>
    /\ saves = <<[kind |-> "best", epoch |-> 0], [kind |-> "epoch", epoch |-> 0],
                 [kind |-> "epoch", epoch |-> 1]>>

\* C10: the schedule is advanced once per completed epoch: never before the
\* epoch's decision and the save it triggers, and always before the next
\* epoch begins.
C10_ScheduleOncePerEpoch ==
    /\ ~HasScheduler(trainer) => sched_steps = 0
    /\ HasScheduler(trainer) =>
          /\ sched_steps =
                IF pc \in {"epoch_ckpt", "epoch_end"} THEN epoch + 1 ELSE epoch
          /\ sched_steps <= Len(decisions)
          /\ pc = "sched" =>
                /\ Len(decisions) = epoch + 1
                /\ decisions[epoch + 1] =>
                      /\ saves # <<>>
                      /\ saves[Len(saves)] = [kind |-> "best", epoch |-> epoch]
          /\ pc = "done" => sched_steps = epochs

\* the scheduler about to step in the second epoch, after a save of the best
\* checkpoint in that epoch
C10_Witness ==
    /\ pc = "sched"
    /\ epoch = 1
    /\ sched_steps = 1
    /\ decisions[2]

\* the positions of a run: before the loop, inside epoch epoch + 1, after the
\* loop, and the two ways of leaving the training function
Terminal == {"done", "aborted"}
Running == {"batch_head", "step", "check", "batch_log", "train_finalize",
            "val", "ckpt", "save_best", "sched", "epoch_ckpt", "epoch_end"}

\* C11: a run goes from idle through the epochs 1..N to exactly one of the
\* terminal states completed or aborted, and a terminal state is never left:
\* after it no batch is processed, no metric is appended, no checkpoint is
\* written and the schedule is not advanced.
C11_TerminalIsFinal ==
    /\ [](/\ pc \in {"idle", "epoch_head", "finish", "export"}
                   \cup Running \cup Terminal
          /\ pc = "idle" => epoch = 0 /\ completed = 0
          /\ pc \in Running => epoch < epochs /\ completed = epoch
          /\ pc = "aborted" <=> error # "none"
          /\ pc = "done" => completed = epochs /\ epoch = epochs)
    /\ [][(pc \in Terminal \/ error # "none") => UNCHANGED vars]_vars

\* a run aborted in its second epoch, after the first epoch wrote a checkpoint
C11_Witness ==
    /\ pc = "aborted"
    /\ completed = 1
    /\ saves # <<>>
    /\ sched_steps = 1

\* the last batch a step ran on
LastStep == step_log[Len(step_log)]

\* C12 (as claimed): the TimeoutError raised for batch k names the batch
\* index k, beside the elapsed time and the model name.
C12_AttributedToBatchIndex ==
    error = "TimeoutError" =>
        /\ "batch_index" \in DOMAIN error_msg
        /\ error_msg.batch_index = batch_idx + 1

\* C12 (amended): the TimeoutError raised for batch k carries the elapsed
\* time and the model name and nothing else; the failing batch is the last
\* batch a training step ran on, and no part of the error names its index.
C12_CarriesElapsedAndModelName ==
    error = "TimeoutError" =>
        /\ DOMAIN error_msg = {"batch_time", "model_name"}
        /\ error_msg.batch_time = now - batch_start
        /\ error_msg.batch_time > Timeout
        /\ error_msg.model_name = ModelName(trainer)
        /\ step_log # <<>>
        /\ LastStep = [stream |-> "train", epoch |-> epoch, idx |-> batch_idx]

\* the second batch of two exceeds the limit in the class trainer
C12_Witness ==
    /\ error = "TimeoutError"
    /\ trainer = "train_mobilenet_class"
    /\ numTrain = 2 /\ batch_idx = 1
    /\ error_msg = [batch_time |-> Timeout + 1, model_name |-> "MobileNet"]

\* C13: when a run terminates early during epoch k, the metrics finalized for
\* the completed epochs 1..k-1 are still delivered to the caller, and nothing
\* is delivered for epoch k.
C13_CompletedEpochsExported ==
    (pc = "aborted" /\ epoch < epochs) =>
        /\ exported.losses = SubSeq(training_losses, 1, completed)
        /\ exported.accuracies = SubSeq(training_accuracies, 1, completed)
        /\ exported.val_losses = SubSeq(validation_losses, 1, completed)
        /\ exported.val_accuracies = SubSeq(validation_accuracies, 1, completed)
        /\ exported.gradient_norms = SubSeq(gradient_norms, 1, completed)

\* log records written by the except clause of the class trainer
HandlerRecords ==
    {i \in DOMAIN log_records : log_records[i].writer = "train_mobilenet"}

\* C14: an error raised while a batch is processed (a failing step or a
\* timeout) reaches the caller as that same error and nothing is retried:
\* after the failure no step runs and no batch is processed a second time;
\* the handler of the class trainer only logs the TimeoutError and re-raises.
C14_FailurePropagatesNoRetry ==
    /\ [](/\ error # "none" => pc = "aborted"
          /\ \A i, j \in DOMAIN step_log : step_log[i] = step_log[j] => i = j
          /\ Len(step_log) = train_steps + val_steps
          /\ error = "TimeoutError" =>
                /\ LastStep.stream = "train"
                /\ Cardinality(HandlerRecords) =
                      IF trainer = "train_mobilenet_class" THEN 1 ELSE 0
                /\ \A i \in HandlerRecords : log_records[i].message = error_msg
          /\ error # "TimeoutError" => HandlerRecords = {})
    /\ [][error # "none" =>
             UNCHANGED <<error, error_msg, step_log, train_steps, val_steps>>]_vars

\* the class trainer logged the timeout of its second batch and re-raised it
C14_Witness ==
    /\ trainer = "train_mobilenet_class"
    /\ pc = "aborted"
    /\ error = "TimeoutError"
    /\ Len(step_log) = 2
    /\ HandlerRecords # {}

RECURSIVE SumLoss(_)
SumLoss(b) == IF b = <<>> THEN 0 ELSE Head(b).loss + SumLoss(Tail(b))

RECURSIVE SumCorrect(_)
SumCorrect(b) == IF b = <<>> THEN 0 ELSE Head(b).correct + SumCorrect(Tail(b))

\* C15: running loss, correct and total start from zero in every epoch, so
\* the mean loss and the accuracy finalized for an epoch are those of the
\* batches of that epoch alone: batch losses [1, 2] and then [3, 3] give the
\* means 1.5 and 3.
C15_EpochMeansUseOwnBatches ==
    /\ [](pc \in {"batch_head", "step", "check", "batch_log", "train_finalize"} =>
             /\ running_loss = SumLoss(epoch_batches)
             /\ TracksAccuracy(trainer) =>
                   /\ correct = SumCorrect(epoch_batches)
                   /\ total = Len(epoch_batches))
    /\ [][Len(training_losses') > Len(training_losses) =>
             /\ training_losses'[Len(training_losses')] =
                   Ratio(SumLoss(epoch_batches), Len(epoch_batches))
             /\ training_accuracies'[Len(training_accuracies')] =
                   Ratio(100 * SumCorrect(epoch_batches), Len(epoch_batches))]_vars

\* two epochs of two batches: losses 1, 2 and then 3, 3
C15_Witness ==
    /\ pc = "done"
    /\ training_losses = <<Ratio(3, 2), Ratio(6, 2)>>
    /\ training_accuracies = <<Ratio(100, 2), Ratio(200, 2)>>

\* C16: whenever an epoch completes, each metric series the trainer keeps
\* (training loss, training accuracy, validation loss, validation accuracy,
\* gradient norm) has gained exactly one value during that epoch, so all of
\* them have the same length at every epoch boundary.
C16_OneValuePerSeriesPerEpoch ==
    /\ pc = "epoch_end" => SeriesLengths = LengthsAfter(completed + 1)
    /\ \A i \in 1..5 :
          \/ SeriesLengths[i] = LengthsAfter(completed)[i]
          \/ SeriesLengths[i] = LengthsAfter(completed + 1)[i]
    /\ pc \in {"epoch_head", "finish", "export", "done"} =>
          /\ KeepsTrainSeries(trainer) =>
                Len(training_losses) = Len(training_accuracies)
          /\ trainer \in Tuned =>
                \A i, j \in 1..5 : SeriesLengths[i] = SeriesLengths[j]

\* the end of the second epoch of a tuned trainer: five series of two values
C16_Witness ==
    /\ pc = "epoch_end"
    /\ trainer \in Tuned
    /\ completed = 1
    /\ SeriesLengths = <<2, 2, 2, 2, 2>>

\* the entry points that are given a training stream only
TrainingOnly == {"train_mobilenet_class", "train_and_log"}

\* C17 (as claimed): without a validation stream the checkpoint decision of
\* each epoch is taken on that epoch's training score, so a training-only run
\* has one decision per completed epoch and saves on improvement.
C17_DecisionOnTrainingScore ==
    (trainer \in TrainingOnly /\ pc = "epoch_head") =>
        /\ Len(decisions) = completed
        /\ \A i \in DOMAIN decisions :
              /\ scores[i] = training_accuracies[i]
              /\ decisions[i] => \E k \in BestSaves : saves[k].epoch = i - 1

\* C17 (amended): a training-only entry point takes no checkpoint decision:
\* the training score is never compared with a best value, the class trainer
\* writes no checkpoint and train_and_log writes exactly one, after the last
\* epoch; where a decision is taken, it is on the validation score.
C17_NoDecisionWithoutValidation ==
    /\ trainer \in TrainingOnly =>
          /\ decisions = <<>> /\ scores = <<>>
          /\ best_val = Zero
          /\ BestSaves = {}
          /\ trainer = "train_mobilenet_class" => saves = <<>>
          /\ trainer = "train_and_log" =>
                saves = IF pc \in {"export", "done"}
                        THEN <<[kind |-> "final", epoch |-> epochs]>>
                        ELSE <<>>
    /\ trainer \in Tuned =>
          \A i \in DOMAIN scores :
              i <= Len(validation_accuracies) =>
                  scores[i] = validation_accuracies[i]

\* a finished training-only run whose second epoch scored higher than its
\* first, with the one checkpoint written after the loop
C17_Witness ==
    /\ trainer = "train_and_log"
    /\ pc = "done"
    /\ Len(training_accuracies) = 2
    /\ FloatGT(training_accuracies[2], training_accuracies[1])
    /\ saves = <<[kind |-> "final", epoch |-> 2]>>

\* C18: no time limit applies to validation: heartbeat.check is never called
\* for a validation batch, so a validation batch of any duration cannot abort
\* the run with a TimeoutError.
C18_NoBudgetInValidation ==
    /\ error = "TimeoutError" =>
          /\ LastStep.stream = "train"
          /\ val_steps = epoch * numVal
    /\ ~HasHeartbeat(trainer) => hb_checks = 0
    /\ (HasHeartbeat(trainer) /\ ~CheckBeforeStep(trainer)) =>
          hb_checks = train_steps - (IF pc = "check" THEN 1 ELSE 0)
    /\ CheckBeforeStep(trainer) =>
          hb_checks \in {train_steps, train_steps + 1}

\* a validation batch that took longer than the limit, after a training batch
\* exactly at the limit: the epoch goes on to its checkpoint decision
C18_Witness ==
    /\ trainer \in Tuned
    /\ pc = "ckpt"
    /\ epoch = 0 /\ numTrain = 1 /\ numVal = 1
    /\ now - batch_start = 2 * Timeout + 1
    /\ hb_checks = 1

\* log records written by Heartbeat.check itself
CheckRecords ==
    {i \in DOMAIN log_records : log_records[i].writer = "Heartbeat.check"}

C20_ExportLeavesSeriesUnchanged ==
    /\ (pc = "export" /\ WritesSummary(trainer)) =>
          summary = Zip(training_losses, training_accuracies)
    /\ pc = "done" =>
          /\ exported = Export
          /\ WritesSummary(trainer) =>
                /\ summary = Zip(exported.losses, exported.accuracies)
                /\ Len(summary) = Len(exported.losses)

\* train_and_log after two epochs: the log file lines and the returned lists
C20_Witness ==
    /\ trainer = "train_and_log"
    /\ pc = "done"
    /\ exported.delivered
    /\ Len(exported.losses) = 2
    /\ summary = <<<<training_losses[1], training_accuracies[1]>>,
                   <<training_losses[2], training_accuracies[2]>>>>

\* C21: with finite streams and steps that return, a run of N epochs always
\* reaches a terminal state, completed after epoch N or aborted at the first
\* failing batch; it is never parked in between and enters no epoch twice.
C21_EventuallyTerminal ==
    /\ <>(pc \in Terminal)
    /\ [](pc \in {"idle", "epoch_head", "finish", "export"}
                  \cup Running \cup Terminal)
    /\ [](\A i, j \in DOMAIN epoch_log : i < j => epoch_log[i] < epoch_log[j])
    /\ [](pc = "done" => Len(epoch_log) = epochs)

\* a tuned run of two epochs over two training and two validation batches
\* that has completed
C21_Witness ==
    /\ pc = "done"
    /\ trainer = "train_mobilenet_tuned"
    /\ epochs = 2 /\ numTrain = 2 /\ numVal = 2
    /\ epoch_log = <<0, 1>>

\* the batch the k-th step of a run works on when every epoch takes the
\* training batches in order and then the validation batches in order
StepInOrder(k) ==
    LET perEpoch == numTrain + numVal
        e == (k - 1) \div perEpoch
        r == (k - 1) % perEpoch
    IN  IF r < numTrain
        THEN [stream |-> "train", epoch |-> e, idx |-> r]
        ELSE [stream |-> "val", epoch |-> e, idx |-> r - numTrain]

\* C22: in every epoch each training batch is passed to the training step
\* exactly once and each validation batch to the validation step exactly
\* once, validation starting only after the last training batch of the epoch;
\* a completed run of N epochs over B and V batches has made N*B training
\* steps and N*V validation steps.
C22_EachBatchOncePerEpoch ==
    /\ \A k \in DOMAIN step_log : step_log[k] = StepInOrder(k)
    /\ pc = "val" => batch_idx = numTrain
    /\ pc = "done" =>
          /\ train_steps = epochs * numTrain
          /\ val_steps = epochs * numVal
          /\ Len(step_log) = epochs * (numTrain + numVal)

\* a completed run of the current MobileNet trainer: 2 epochs, 2 + 2 batches
C22_Witness ==
    /\ pc = "done"
    /\ trainer = "train_mobilenet"
    /\ epochs = 2 /\ numTrain = 2 /\ numVal = 2
    /\ train_steps = 4 /\ val_steps = 4

\* C23: the tracked best score is the maximum of its initial value 0.0 and
\* the validation scores of the epochs decided so far; it never decreases and
\* changes only in the checkpoint step that ends an epoch, never while a
\* training or validation batch is processed.
C23_BestIsRunningMax ==
    /\ ~FloatGT(Zero, best_val)
    /\ \A i \in DOMAIN scores : ~FloatGT(scores[i], best_val)
    /\ best_val = Zero \/ \E i \in DOMAIN scores : scores[i] = best_val
    /\ HasValidation(trainer) =>
          Len(scores) =
              IF pc \in {"save_best", "sched", "epoch_ckpt", "epoch_end"}
              THEN completed + 1 ELSE completed
    /\ ~HasValidation(trainer) => scores = <<>>

\* the boundary after a second epoch that scored lower than the first
C23_Witness ==
    /\ pc = "epoch_head"
    /\ Len(scores) = 2
    /\ FloatGT(scores[1], scores[2])
    /\ FloatGT(scores[2], Zero)
    /\ best_val = scores[1]

\* C24: in the tuned trainers, in every state, the state left by a failure
\* in the middle of an epoch included, the series lengths form the chain
\* validation accuracies <= validation losses <= training accuracies <=
\* training losses <= gradient norms <= validation accuracies + 1.
C24_SeriesLengthChain ==
    trainer \in Tuned =>
        /\ Len(validation_accuracies) <= Len(validation_losses)
        /\ Len(validation_losses) <= Len(training_accuracies)
        /\ Len(training_accuracies) <= Len(training_losses)
        /\ Len(training_losses) <= Len(gradient_norms)
        /\ Len(gradient_norms) <= Len(validation_accuracies) + 1

\* a validation batch of the second epoch failed after the training metrics
\* of that epoch were appended
C24_Witness ==
    /\ trainer \in Tuned
    /\ pc = "aborted"
    /\ error = "StepFailure"
    /\ SeriesLengths = <<2, 2, 1, 1, 2>>

\* the calls of log_message made for a model name, in order
CallsFor(m) == SelectSeq(log_calls, LAMBDA c : c.model = m)

\* the lines the calls for a model name leave behind when they all go to the
\* file registered by the first of them
LinesFor(m) ==
    <<StartedLine(m, CallsFor(m)[1].at)>>
        \o [i \in 1..Len(CallsFor(m)) |-> MessageLine(CallsFor(m)[i].text)]

\* C25: once the first log_message call for a model name has registered a
\* log file, every later call for that name appends to that same file,
\* whatever epochs and learning rate it passes, and the entries of the other
\* names stay as they are: two runs with one model name share one log file.
C25_OneLogFilePerModelName ==
    /\ DOMAIN log_files = {log_calls[i].model : i \in DOMAIN log_calls}
    /\ DOMAIN files = {log_files[m] : m \in DOMAIN log_files}
    /\ \A m \in DOMAIN log_files :
          /\ log_files[m] = LogFileName(m, CallsFor(m)[1].args, CallsFor(m)[1].at)
          /\ files[log_files[m]] = LinesFor(m)

\* two runs of one model name, a second apart and with different arguments,
\* and a call for another name in between: one file holds both runs
C25_Witness ==
    /\ Len(log_calls) = 3
    /\ log_calls[1].model = "MobileNet_Tuned" /\ log_calls[1].args = <<5, 1000>>
    /\ log_calls[2].model = "DETR_Tuned"
    /\ log_calls[3].model = "MobileNet_Tuned" /\ log_calls[3].args = <<2, 1004>>
    /\ log_calls[3].at = 1 /\ log_calls[1].at = 0
    /\ Len(files[log_files["MobileNet_Tuned"]]) = 3

\* the per-epoch checkpoints written so far
EpochSaves == SelectSeq(saves, LAMBDA f : f.kind = "epoch")

\* C26: the tuned trainers write the per-epoch checkpoint exactly once for
\* every completed epoch, after the scheduler step of that epoch, and none
\* for an aborted epoch: there are as many per-epoch checkpoints as epochs
\* whose loop body has run to its end.
C26_EpochCheckpointPerCompletedEpoch ==
    /\ trainer \notin Tuned => EpochSaves = <<>>
    /\ trainer \in Tuned =>
          /\ Len(EpochSaves) =
                IF pc = "epoch_end" THEN completed + 1 ELSE completed
          /\ \A i \in DOMAIN EpochSaves :
                /\ EpochSaves[i].epoch = i - 1
                /\ sched_steps >= i
          /\ pc = "aborted" => Len(EpochSaves) = epoch

\* a tuned run aborted by a timeout in its second epoch: one checkpoint, of
\* the first epoch
C26_Witness ==
    /\ trainer \in Tuned
    /\ pc = "aborted"
    /\ error = "TimeoutError"
    /\ epoch = 1
    /\ EpochSaves = <<[kind |-> "epoch", epoch |-> 0]>>

\* C27: when the training stream yields no batch and N >= 1, the run does not
\* complete: the first epoch fails with a division by zero when its metrics
\* are finalized, before any metric value is appended, any checkpoint is
\* written or the schedule is advanced.
C27_EmptyTrainingStreamFails ==
    (numTrain = 0 /\ epochs >= 1) =>
        /\ pc \in {"idle", "epoch_head", "batch_head", "train_finalize",
                   "aborted"}
        /\ epoch = 0 /\ completed = 0
        /\ SeriesLengths = <<0, 0, 0, 0, 0>>
        /\ saves = <<>> /\ sched_steps = 0 /\ decisions = <<>>
        /\ step_log = <<>>
        /\ pc = "aborted" => error = "ZeroDivisionError"

\* train_and_log over an empty loader, failed in its first epoch
C27_Witness ==
    /\ trainer = "train_and_log"
    /\ numTrain = 0 /\ epochs = 2
    /\ pc = "aborted"
    /\ error = "ZeroDivisionError"
    /\ epoch_log = <<0>>

\* the indices of the images that have a box of positive width and height
WithValidBox ==
    {i \in DOMAIN targets :
        \E j \in DOMAIN targets[i] :
            /\ Float(targets[i][j].xmax) > Float(targets[i][j].xmin)
            /\ Float(targets[i][j].ymax) > Float(targets[i][j].ymin)}

\* the boxes of positive width and height of image i, in input order
BoxesToKeep(i) ==
    LET keep == SelectSeq(targets[i],
                          LAMBDA o : /\ Float(o.xmax) > Float(o.xmin)
                                     /\ Float(o.ymax) > Float(o.ymin))
    IN  [j \in DOMAIN keep |->
            <<Float(keep[j].xmin), Float(keep[j].ymin),
              Float(keep[j].xmax), Float(keep[j].ymax)>>]

\* C28: sanitize_bounding_boxes keeps exactly the boxes with xmax > xmin and
\* ymax > ymin, in input order, and leaves out every target without a valid
\* box: each returned target has at least one box, the result is never
\* longer than the input and is shorter than the image list whenever some
\* image has no valid box.
C28_KeepsExactlyValidBoxes ==
    sanitize_pc = "returned" =>
        /\ Len(sanitized_targets) = Cardinality(WithValidBox)
        /\ \A k \in DOMAIN sanitized_targets :
              /\ Len(sanitized_targets[k].boxes) >= 1
              /\ \E i \in WithValidBox :
                    /\ Cardinality({m \in WithValidBox : m <= i}) = k
                    /\ sanitized_targets[k].boxes = BoxesToKeep(i)
        /\ Len(sanitized_targets) <= Len(targets)
        /\ (WithValidBox # DOMAIN targets) =>
              Len(sanitized_targets) < Len(targets)

\* two images, the first with a box of no width only: one target comes
\* back, with the two valid boxes of the second image in their order
C28_Witness ==
    /\ sanitize_pc = "returned"
    /\ Len(targets) = 2
    /\ targets[1] = <<Object("1", "0", "1.0", "1", "bird")>>
    /\ Len(sanitized_targets) = 1
    /\ sanitized_targets[1].boxes = <<<<0, 0, 2, 1>>, <<0, 0, 1, 1>>>>

====
